---- MODULE Spec2Model ----
(***************************************************************************)
(* Knowledge-base search of the Fallout 4 modding assistant:               *)
(* searchKnowledgeBase (src/lib/search.ts) with the helpers it calls in    *)
(* src/lib/algorithms.ts, over the entry collection and the settings that  *)
(* the stores hand to it.                                                  *)
(*                                                                         *)
(* A string is a sequence of one-character strings.  A number is a         *)
(* fixed-point integer counting units of 1/SCALE; NaN is a value of its    *)
(* own.  Positions in a text are 0-based, as in the source.                *)
(***************************************************************************)
EXTENDS Integers, Sequences, FiniteSets, TLC

\* ------------------------------------------------------------------------
\* Numbers
\* ------------------------------------------------------------------------

\* One unit of the fixed-point scale: 2520 = lcm(1..10), so that a quotient
\* by a length or a count up to 10 (and by 12, 14, 15, ...) is exact.
SCALE == 2520 * 10

\* The result of 0/0.
NaN == 0 - (1000 * SCALE)

isNaN(x) == x = NaN

\* a + b, a * k (k a plain integer), a > b on numbers that may be NaN.
FAdd(a, b) == IF isNaN(a) \/ isNaN(b) THEN NaN ELSE a + b

FTimes(a, k) == IF isNaN(a) THEN NaN ELSE a * k

FGt(a, b) == ~isNaN(a) /\ ~isNaN(b) /\ a > b

\* numerator / denominator of two plain integers, as a number.
FDiv(n, d) == IF d = 0 THEN NaN ELSE (n * SCALE) \div d

\* The value of y, computed once x has been: the order of two statements.
after(x, y) == IF x = x THEN y ELSE y

SetMin(S) == CHOOSE x \in S : \A y \in S : x <= y

SetMax(S) == CHOOSE x \in S : \A y \in S : x >= y

Min3(a, b, c) == SetMin({a, b, c})

\* Math.log(n) for the integers 1..10, in units of 1/SCALE.
LnTable == <<0, 17467, 27685, 34935, 40558, 45152, 49037, 52402, 55370, 58025>>

\* Math.log(n / d) for plain integers n, d in 1..10.
MathLog(n, d) == LnTable[n] - LnTable[d]

\* ------------------------------------------------------------------------
\* Strings
\* ------------------------------------------------------------------------

isSpace(c) == c \in {" ", "\t", "\n"}

LowerOf == [A |-> "a", B |-> "b", D |-> "d", E |-> "e", M |-> "m", S |-> "s",
            W |-> "w", X |-> "x", Y |-> "y", Z |-> "z"]

toLowerChar(c) == IF c \in DOMAIN LowerOf THEN LowerOf[c] ELSE c

\* String.prototype.toLowerCase
toLowerCase(s) == [i \in 1..Len(s) |-> toLowerChar(s[i])]

\* String.prototype.trim
trim(s) ==
    LET keep == {i \in 1..Len(s) : ~isSpace(s[i])}
    IN  IF keep = {} THEN <<>> ELSE SubSeq(s, SetMin(keep), SetMax(keep))

\* String.prototype.split(/\s+/): the pieces between the maximal runs of
\* whitespace; k runs give k + 1 pieces, the empty ones included.
RECURSIVE splitFrom(_, _, _, _, _)
splitFrom(s, i, cur, inRun, acc) ==
    IF i > Len(s) THEN Append(acc, cur)
    ELSE IF isSpace(s[i])
         THEN IF inRun THEN splitFrom(s, i + 1, cur, TRUE, acc)
                       ELSE splitFrom(s, i + 1, <<>>, TRUE, Append(acc, cur))
         ELSE splitFrom(s, i + 1, Append(cur, s[i]), FALSE, acc)

splitWhitespace(s) == splitFrom(s, 1, <<>>, FALSE, <<>>)

\* Array.prototype.join(" ")
RECURSIVE joinSpace(_)
joinSpace(terms) ==
    IF terms = <<>> THEN <<>>
    ELSE IF Len(terms) = 1 THEN terms[1]
    ELSE terms[1] \o <<" ">> \o joinSpace(Tail(terms))

\* Array.prototype.filter, for a predicate given as the set of kept indices.
RECURSIVE filterIdx(_, _, _)
filterIdx(items, keep, from) ==
    IF from > Len(items) THEN <<>>
    ELSE (IF from \in keep THEN <<items[from]>> ELSE <<>>)
         \o filterIdx(items, keep, from + 1)

seqElems(seq) == {seq[i] : i \in 1..Len(seq)}

\* The tokens of length > n of a text, in order.
tokensLongerThan(s, n) ==
    LET parts == splitWhitespace(s)
    IN  filterIdx(parts, {i \in 1..Len(parts) : Len(parts[i]) > n}, 1)

\* text.substring(p, p + length(term)) = term
matchAt(text, term, p) ==
    /\ p >= 0
    /\ p + Len(term) <= Len(text)
    /\ SubSeq(text, p + 1, p + Len(term)) = term

\* String.prototype.indexOf(term, from): the first position >= from at
\* which term occurs, -1 when there is none.
indexOf(text, term, from) ==
    LET hits == {p \in from..(Len(text) - Len(term)) : matchAt(text, term, p)}
    IN  IF hits = {} THEN 0 - 1 ELSE SetMin(hits)

\* String.prototype.includes
includes(text, term) == indexOf(text, term, 0) # 0 - 1

\* The scan that puts each span in front of the spans found before it.
RECURSIVE findPositions_newestFirst(_, _, _)
findPositions_newestFirst(text, term, pos) ==
    LET p == indexOf(text, term, pos)
    IN  IF p = 0 - 1 THEN <<>>
        ELSE findPositions_newestFirst(text, term, p + Len(term)) \o << <<p, p + Len(term)>> >>

\* The scan `while ((pos = text.indexOf(term, pos)) !== -1) { push; pos +=
\* term.length }`: the spans of the occurrences of a non-empty term, left to
\* right, each search resuming behind the previous occurrence.
RECURSIVE findPositions(_, _, _)
findPositions(text, term, pos) ==
    LET p == indexOf(text, term, pos)
    IN  IF p = 0 - 1 THEN <<>>
        ELSE << <<p, p + Len(term)>> >> \o findPositions(text, term, p + Len(term))

\* ------------------------------------------------------------------------
\* src/lib/algorithms.ts
\* ------------------------------------------------------------------------

\* calculateTF: termCount / wordCount, kept as the pair of the two counts.
\* document.split(term).length - 1 is the number of occurrences of the term
\* found left to right without overlap.
calculateTF(term, document) ==
    LET termCount == Len(findPositions(toLowerCase(document), toLowerCase(term), 0))
        wordCount == Len(splitWhitespace(document))
    IN  <<termCount, wordCount>>

\* calculateIDF: Math.log(documents.length / (numDocsWithTerm + 1)) + 1.
calculateIDF(term, documents) ==
    LET numDocsWithTerm ==
            Cardinality({i \in 1..Len(documents) :
                            includes(toLowerCase(documents[i]), toLowerCase(term))})
    IN  MathLog(Len(documents), numDocsWithTerm + 1) + SCALE

\* calculateTFIDF: tf * idf.
calculateTFIDF(term, document, documents) ==
    LET tf  == calculateTF(term, document)
        idf == calculateIDF(term, documents)
    IN  (tf[1] * idf) \div tf[2]

\* Line 74: the length of a document in words.
docLengthOf(document) == Len(splitWhitespace(document))

\* One summand of calculateBM25, with k1 = 3/2 and b = 3/4:
\*   idf * (tf * (k1 + 1)) / (tf + k1 * (1 - b + b * (docLength / avgDocLength)))
\* for tf = c / w and avgDocLength = sumLen / n; numerator and denominator
\* are both multiplied by 8 * w * sumLen.
bm25Term(term, document, avgDocLength, documents) ==
    LET tf        == calculateTF(term, document)
        idf       == calculateIDF(term, documents)
        c         == tf[1]
        w         == tf[2]
        docLength == docLengthOf(document)
        sumLen    == avgDocLength[1]
        n         == avgDocLength[2]
        numerator   == 20 * c * sumLen
        denominator == 8 * c * sumLen + 3 * w * sumLen + 9 * w * docLength * n
    IN  (idf * numerator) \div denominator

RECURSIVE sumOver(_, _, _, _, _)
sumOver(terms, i, document, avgDocLength, documents) ==
    IF i > Len(terms) THEN 0
    ELSE bm25Term(terms[i], document, avgDocLength, documents)
         + sumOver(terms, i + 1, document, avgDocLength, documents)

\* calculateBM25; avgDocLength is the pair <<sum of lengths, number of documents>>.
calculateBM25(query, document, avgDocLength, documents) ==
    LET terms == tokensLongerThan(toLowerCase(query), 2)
    IN  sumOver(terms, 1, document, avgDocLength, documents)

\* The row in which a substitution costs nothing.
RECURSIVE levRow_substitutionFree(_, _, _, _)
levRow_substitutionFree(str1, ch, prev, cur) ==
    IF Len(cur) = Len(str1) + 1 THEN cur
    ELSE LET i == Len(cur)
         IN  levRow_substitutionFree(str1, ch, prev,
                    Append(cur, Min3(cur[i] + 1, prev[i + 1] + 1, prev[i])))

\* One row of the table of levenshteinDistance: cur[i + 1] is track[j][i].
RECURSIVE levRow(_, _, _, _)
levRow(str1, ch, prev, cur) ==
    IF Len(cur) = Len(str1) + 1 THEN cur
    ELSE LET i         == Len(cur)
             indicator == IF str1[i] = ch THEN 0 ELSE 1
         IN  levRow(str1, ch, prev,
                    Append(cur, Min3(cur[i] + 1, prev[i + 1] + 1, prev[i] + indicator)))

\* The loop over the rows.  A row is never empty; the test of its length makes
\* the row be computed before the next one is begun, as the loop does.
RECURSIVE levRows(_, _, _, _)
levRows(str1, str2, j, prev) ==
    IF j > Len(str2) \/ Len(prev) = 0 THEN prev
    ELSE levRows(str1, str2, j + 1, levRow(str1, str2[j], prev, <<j>>))

\* levenshteinDistance
levenshteinDistance(str1, str2) ==
    levRows(str1, str2, 1, [i \in 1..(Len(str1) + 1) |-> i - 1])[Len(str1) + 1]

\* levenshteinSimilarity without the return for two empty strings.
levenshteinSimilarity_unguarded(str1, str2) ==
    LET maxLength == IF Len(str1) >= Len(str2) THEN Len(str1) ELSE Len(str2)
    IN  IF maxLength = 0 THEN NaN
        ELSE SCALE - (levenshteinDistance(str1, str2) * SCALE) \div maxLength

\* levenshteinSimilarity
levenshteinSimilarity(str1, str2) ==
    LET maxLength == IF Len(str1) >= Len(str2) THEN Len(str1) ELSE Len(str2)
    IN  IF maxLength = 0 THEN SCALE
        ELSE SCALE - (levenshteinDistance(str1, str2) * SCALE) \div maxLength

\* jaccardSimilarity
jaccardSimilarity(set1, set2) ==
    LET intersection == {x \in set1 : x \in set2}
        union        == set1 \cup set2
    IN  FDiv(Cardinality(intersection), Cardinality(union))

\* ------------------------------------------------------------------------
\* src/lib/search.ts: calculateSimilarity
\* ------------------------------------------------------------------------

\* calculateSimilarity: jaccardScore * 0.7 + levenshteinScore * 0.3.
calculateSimilarity(text1, text2) ==
    LET set1 == seqElems(tokensLongerThan(toLowerCase(text1), 2))
        set2 == seqElems(tokensLongerThan(toLowerCase(text2), 2))
        jaccardScore == FDiv(Cardinality(set1 \cap set2), Cardinality(set1 \cup set2))
        levenshteinScore ==
            IF Len(text1) < 100 /\ Len(text2) < 100
            THEN levenshteinSimilarity(text1, text2) ELSE 0
    IN  IF isNaN(jaccardScore) THEN NaN
        ELSE (jaccardScore * 7 + levenshteinScore * 3) \div 10

\* ------------------------------------------------------------------------
\* Knowledge entries
\* ------------------------------------------------------------------------

\* A KnowledgeEntry read from the store.  The store holds what was imported,
\* so a field may be absent: `missing` names the absent fields, whose value
\* is then undefined.
fieldMissing(entry, field) == field \in entry.missing

isMalformed(entry) == entry.missing # {}

\* undefined, converted to a string by the + of strings.
undefinedText == <<"u", "n", "d", "e", "f", "i", "n", "e", "d">>

\* entry.title + " " + entry.content
documentOf(entry) ==
    (IF fieldMissing(entry, "title") THEN undefinedText ELSE entry.title)
    \o <<" ">> \o
    (IF fieldMissing(entry, "content") THEN undefinedText ELSE entry.content)

allDocumentsOf(allEntries) == [i \in 1..Len(allEntries) |-> documentOf(allEntries[i])]

\* ------------------------------------------------------------------------
\* src/lib/algorithms.ts: expandQuery
\* ------------------------------------------------------------------------

\* The alternatives of the stopword pattern of expandQuery.
stopWords == {
    <<"t","h","e">>, <<"a","n","d">>, <<"b","u","t">>, <<"f","o","r">>, <<"o","r">>,
    <<"n","o","r">>, <<"s","o">>, <<"y","e","t">>, <<"a">>, <<"a","n">>, <<"i","n">>, <<"t","o">>,
    <<"o","f">>, <<"a","t">>, <<"b","y">>, <<"w","i","t","h">>, <<"a","b","o","u","t">>,
    <<"a","g","a","i","n","s","t">>, <<"b","e","t","w","e","e","n">>, <<"i","n","t","o">>,
    <<"t","h","r","o","u","g","h">>, <<"d","u","r","i","n","g">>, <<"b","e","f","o","r","e">>,
    <<"a","f","t","e","r">>, <<"a","b","o","v","e">>, <<"b","e","l","o","w">>, <<"f","r","o","m">>,
    <<"u","p">>, <<"d","o","w","n">>, <<"o","n">>, <<"o","f","f">>, <<"o","v","e","r">>,
    <<"u","n","d","e","r">>, <<"a","g","a","i","n">>, <<"f","u","r","t","h","e","r">>,
    <<"t","h","e","n">>, <<"o","n","c","e">>, <<"h","e","r","e">>, <<"t","h","e","r","e">>,
    <<"w","h","e","n">>, <<"w","h","e","r","e">>, <<"w","h","y">>, <<"h","o","w">>,
    <<"a","l","l">>, <<"a","n","y">>, <<"b","o","t","h">>, <<"e","a","c","h">>, <<"f","e","w">>,
    <<"m","o","r","e">>, <<"m","o","s","t">>, <<"o","t","h","e","r">>, <<"s","o","m","e">>,
    <<"s","u","c","h">>, <<"n","o">>, <<"n","o","t">>, <<"o","n","l","y">>, <<"o","w","n">>,
    <<"s","a","m","e">>, <<"t","h","a","n">>, <<"t","o","o">>, <<"v","e","r","y">>,
    <<"c","a","n">>, <<"w","i","l","l">>, <<"j","u","s","t">> }

\* Set.prototype.add on a set kept in insertion order.
setAdd(ordered, x) == IF x \in seqElems(ordered) THEN ordered ELSE Append(ordered, x)

RECURSIVE setAddAll(_, _)
setAddAll(ordered, xs) ==
    IF xs = <<>> THEN ordered ELSE setAddAll(setAdd(ordered, xs[1]), Tail(xs))

\* slice(0, end) that keeps one element too many.
slice0_inclusive(seq, end) ==
    LET final == IF end < 0 THEN (IF Len(seq) + end < 0 THEN 0 ELSE Len(seq) + end)
                 ELSE (IF end + 1 > Len(seq) THEN Len(seq) ELSE end + 1)
    IN  SubSeq(seq, 1, final)

\* Array.prototype.slice(0, end)
slice0(seq, end) ==
    LET final == IF end < 0 THEN (IF Len(seq) + end < 0 THEN 0 ELSE Len(seq) + end)
                 ELSE (IF end > Len(seq) THEN Len(seq) ELSE end)
    IN  SubSeq(seq, 1, final)

\* The test that admits a candidate term: some query term is fuzzy-similar
\* to it (> 0.7), contained in it, or contains it.
isRelatedTerm(queryTerms, term) ==
    \E k \in 1..Len(queryTerms) :
        \/ levenshteinSimilarity(queryTerms[k], term) * 10 > 7 * SCALE
        \/ includes(term, queryTerms[k])
        \/ includes(queryTerms[k], term)

\* The terms of one entry with the stop words let through.
entryExpansionTerms_stopWordsKept(query, queryTerms, entry) ==
    LET text       == documentOf(entry)
        similarity == calculateSimilarity(query, text)
        parts      == splitWhitespace(toLowerCase(text))
        entryTerms == filterIdx(parts,
                          {i \in 1..Len(parts) :
                              /\ Len(parts[i]) > 3
                              /\ parts[i] \notin seqElems(queryTerms)}, 1)
    IN  IF FGt(FTimes(similarity, 10), 3 * SCALE)
        THEN filterIdx(entryTerms,
                 {i \in 1..Len(entryTerms) : isRelatedTerm(queryTerms, entryTerms[i])}, 1)
        ELSE <<>>

\* The terms one entry adds to the expansion, in order: none unless its
\* similarity to the query exceeds 0.3.
entryExpansionTerms(query, queryTerms, entry) ==
    LET text       == documentOf(entry)
        similarity == calculateSimilarity(query, text)
        parts      == splitWhitespace(toLowerCase(text))
        entryTerms == filterIdx(parts,
                          {i \in 1..Len(parts) :
                              /\ Len(parts[i]) > 3
                              /\ parts[i] \notin seqElems(queryTerms)
                              /\ parts[i] \notin stopWords}, 1)
    IN  IF FGt(FTimes(similarity, 10), 3 * SCALE)
        THEN filterIdx(entryTerms,
                 {i \in 1..Len(entryTerms) : isRelatedTerm(queryTerms, entryTerms[i])}, 1)
        ELSE <<>>

RECURSIVE expandOver(_, _, _, _, _)
expandOver(query, queryTerms, entries, i, expandedTerms) ==
    IF i > Len(entries) THEN expandedTerms
    ELSE expandOver(query, queryTerms, entries, i + 1,
             setAddAll(expandedTerms, entryExpansionTerms(query, queryTerms, entries[i])))

\* expandQuery that returns the added terms without the terms of the query.
expandQuery_additionsOnly(query, entries) ==
    LET queryTerms    == tokensLongerThan(toLowerCase(query), 2)
        expandedTerms == expandOver(query, queryTerms, entries, 1, setAddAll(<<>>, queryTerms))
        finalTerms    == slice0(expandedTerms, Len(queryTerms) + 3)
    IN  joinSpace(filterIdx(finalTerms,
            {i \in 1..Len(finalTerms) : finalTerms[i] \notin seqElems(queryTerms)}, 1))

\* expandQuery that ends its output with a space.
expandQuery_trailingSpace(query, entries) ==
    LET queryTerms    == tokensLongerThan(toLowerCase(query), 2)
        expandedTerms == expandOver(query, queryTerms, entries, 1, setAddAll(<<>>, queryTerms))
        finalTerms    == slice0(expandedTerms, Len(queryTerms) + 3)
    IN  joinSpace(finalTerms) \o <<" ">>

\* expandQuery without the slice that caps the expansion.
expandQuery_uncapped(query, entries) ==
    LET queryTerms    == tokensLongerThan(toLowerCase(query), 2)
        expandedTerms == expandOver(query, queryTerms, entries, 1, setAddAll(<<>>, queryTerms))
    IN  joinSpace(expandedTerms)

\* expandQuery
expandQuery(query, entries) ==
    LET queryTerms    == tokensLongerThan(toLowerCase(query), 2)
        expandedTerms == expandOver(query, queryTerms, entries, 1, setAddAll(<<>>, queryTerms))
        finalTerms    == slice0(expandedTerms, Len(queryTerms) + 3)
    IN  joinSpace(finalTerms)

\* ------------------------------------------------------------------------
\* src/lib/search.ts: the first pass of searchKnowledgeBase
\* ------------------------------------------------------------------------

RECURSIVE sumSeq(_)
sumSeq(xs) == IF xs = <<>> THEN 0 ELSE xs[1] + sumSeq(Tail(xs))

\* The number of the terms (counted with repetition) that occur in the text.
countIncluded(text, terms) == Cardinality({k \in 1..Len(terms) : includes(text, terms[k])})

\* The loop over terms that adds to the score and records no match.
termMatches_unrecorded(field, text, terms) ==
    <<>>

\* The match records pushed by one loop over terms: one record for each term
\* that occurs in the text, holding the spans of its occurrences.
RECURSIVE termMatches(_, _, _)
termMatches(field, text, terms) ==
    IF terms = <<>> THEN <<>>
    ELSE (IF includes(text, terms[1])
          THEN << [field |-> field, positions |-> findPositions(text, terms[1], 0)] >>
          ELSE <<>>) \o termMatches(field, text, Tail(terms))

\* The phrase signal that adds to the score and records no match.
phraseMatches_unrecorded(field, text, normalizedQuery) ==
    <<>>

\* The record pushed for the whole normalized query.
phraseMatches(field, text, normalizedQuery) ==
    IF includes(text, normalizedQuery)
    THEN LET startPos == indexOf(text, normalizedQuery, 0)
         IN  << [field |-> field,
                 positions |-> << <<startPos, startPos + Len(normalizedQuery)>> >>] >>
    ELSE <<>>

\* The fuzzy keyword signal with its comparison reversed.
keywordFuzzy_reversed(keywordLower, queryTerms) ==
    sumSeq([k \in 1..Len(queryTerms) |->
              LET similarity == levenshteinSimilarity(queryTerms[k], keywordLower)
              IN  IF similarity * 10 < 8 * SCALE THEN similarity * 2 ELSE 0])

\* The fuzzy contribution of one keyword: similarity * 2 for every query term
\* whose similarity to the keyword exceeds 0.8.
keywordFuzzy(keywordLower, queryTerms) ==
    sumSeq([k \in 1..Len(queryTerms) |->
              LET similarity == levenshteinSimilarity(queryTerms[k], keywordLower)
              IN  IF similarity * 10 > 8 * SCALE THEN similarity * 2 ELSE 0])

\* The exact-phrase signal of the title with its condition negated.
titlePhraseSignal_negated(titleText, normalizedQuery) ==
    IF ~includes(titleText, normalizedQuery) THEN 10 * SCALE ELSE 0

\* The exact-phrase signal of the title: +10 when the title holds the query.
titlePhraseSignal(titleText, normalizedQuery) ==
    IF includes(titleText, normalizedQuery) THEN 10 * SCALE ELSE 0

\* What the scorer adds for each of its signals, for one entry.
signalsOf(entry, normalizedQuery, queryTerms, expandedTerms, allEntries) ==
    LET titleText    == toLowerCase(entry.title)
        contentText  == toLowerCase(entry.content)
        keywords     == [k \in 1..Len(entry.keywords) |-> toLowerCase(entry.keywords[k])]
        allDocuments == allDocumentsOf(allEntries)
        document     == documentOf(entry)
        documentTerms == seqElems(tokensLongerThan(toLowerCase(document), 2))
        queryTermSet  == seqElems(queryTerms)
    IN  [ titlePhrase     |-> titlePhraseSignal(titleText, normalizedQuery),
          titleTerms      |-> countIncluded(titleText, queryTerms) * 3 * SCALE,
          titleExpanded   |-> (countIncluded(titleText, expandedTerms) * 3 * SCALE) \div 2,
          contentPhrase   |-> IF includes(contentText, normalizedQuery) THEN 5 * SCALE ELSE 0,
          contentTerms    |-> countIncluded(contentText, queryTerms) * SCALE,
          contentExpanded |-> (countIncluded(contentText, expandedTerms) * SCALE) \div 2,
          keywordExact    |-> Cardinality({k \in 1..Len(keywords) :
                                  keywords[k] = normalizedQuery}) * 5 * SCALE,
          keywordContains |-> Cardinality({k \in 1..Len(keywords) :
                                  /\ keywords[k] # normalizedQuery
                                  /\ includes(keywords[k], normalizedQuery)}) * 3 * SCALE,
          keywordTerms    |-> sumSeq([k \in 1..Len(keywords) |->
                                  countIncluded(keywords[k], queryTerms) * 2 * SCALE]),
          keywordFuzzy    |-> sumSeq([k \in 1..Len(keywords) |->
                                  keywordFuzzy(keywords[k], queryTerms)]),
          tfidf           |-> sumSeq([k \in 1..Len(queryTerms) |->
                                  calculateTFIDF(queryTerms[k], document, allDocuments) * 2]),
          jaccard         |-> FTimes(jaccardSimilarity(queryTermSet, documentTerms), 3) ]

signalNames == {"titlePhrase", "titleTerms", "titleExpanded", "contentPhrase",
                "contentTerms", "contentExpanded", "keywordExact", "keywordContains",
                "keywordTerms", "keywordFuzzy", "tfidf", "jaccard"}

\* The body of the map over allEntries: the SearchResult of one entry, with
\* the contribution of each signal kept beside the score they add up to.
scoreEntry(entry, normalizedQuery, queryTerms, expandedTerms, allEntries) ==
    LET sig         == signalsOf(entry, normalizedQuery, queryTerms, expandedTerms, allEntries)
        titleText   == toLowerCase(entry.title)
        contentText == toLowerCase(entry.content)
        score ==
            FAdd(sig.titlePhrase + sig.titleTerms + sig.titleExpanded
                 + sig.contentPhrase + sig.contentTerms + sig.contentExpanded
                 + sig.keywordExact + sig.keywordContains + sig.keywordTerms
                 + sig.keywordFuzzy + sig.tfidf,
                 sig.jaccard)
        matches ==
            phraseMatches("title", titleText, normalizedQuery)
            \o termMatches("title", titleText, queryTerms)
            \o termMatches("title", titleText, expandedTerms)
            \o phraseMatches("content", contentText, normalizedQuery)
            \o termMatches("content", contentText, queryTerms)
            \o termMatches("content", contentText, expandedTerms)
    IN  [entry |-> entry, score |-> score, matches |-> matches, signals |-> sig]

\* Array.prototype.sort((a, b) => b.score - a.score): stable, descending by
\* score; a comparison with NaN counts as equal.
RECURSIVE insertByScore(_, _)
insertByScore(sorted, x) ==
    IF sorted = <<>> THEN <<x>>
    ELSE IF FGt(x.score, sorted[1].score) THEN <<x>> \o sorted
    ELSE <<sorted[1]>> \o insertByScore(Tail(sorted), x)

RECURSIVE sortFrom(_, _, _)
sortFrom(seq, i, sorted) ==
    IF i > Len(seq) THEN sorted ELSE sortFrom(seq, i + 1, insertByScore(sorted, seq[i]))

sortByScore(seq) == sortFrom(seq, 1, <<>>)

\* The threshold test that lets a score equal to the threshold through.
passesThreshold_inclusive(item, settings) ==
    ~isNaN(item.score) /\ item.score >= settings.relevanceThreshold * 10

\* Line 208: item.score > settings.relevanceThreshold * 10.
passesThreshold(item, settings) ==
    FGt(item.score, settings.relevanceThreshold * 10)

\* The filter that keeps the entries the test rejects.
filterByThreshold_rejected(scoredEntries, settings) ==
    filterIdx(scoredEntries,
        {i \in 1..Len(scoredEntries) : ~passesThreshold(scoredEntries[i], settings)}, 1)

\* .filter((item) => item.score > settings.relevanceThreshold * 10)
filterByThreshold(scoredEntries, settings) ==
    filterIdx(scoredEntries,
        {i \in 1..Len(scoredEntries) : passesThreshold(scoredEntries[i], settings)}, 1)

\* ------------------------------------------------------------------------
\* src/lib/algorithms.ts: rankResults
\* ------------------------------------------------------------------------

\* The score of one result after the second pass.
finalScoreOf(query, result, avgDocLength, allDocuments) ==
    LET entry      == result.entry
        document   == documentOf(entry)
        bm25Score  == calculateBM25(query, document, avgDocLength, allDocuments)
        queryTerms == tokensLongerThan(toLowerCase(query), 2)
        tfIdfSum   == sumSeq([k \in 1..Len(queryTerms) |->
                          calculateTFIDF(queryTerms[k], document, allDocuments) * 3])
        titleSimilarity == levenshteinSimilarity(toLowerCase(query), toLowerCase(entry.title))
        querySet   == seqElems(queryTerms)
        keywordSet == {toLowerCase(entry.keywords[k]) : k \in 1..Len(entry.keywords)}
        keywordSimilarity == jaccardSimilarity(querySet, keywordSet)
    IN  FAdd(FAdd(result.score, bm25Score * 5 + tfIdfSum + titleSimilarity * 2),
             FTimes(keywordSimilarity, 4))

\* Line 258: the average document length, as the pair
\* <<sum of the word counts of the contents, number of entries>>.
avgDocLengthOf(allEntries) ==
    << sumSeq([i \in 1..Len(allEntries) |->
                  Len(splitWhitespace(allEntries[i].content))]),
       Len(allEntries) >>

\* Lines 258-299: the results with their final scores, in the order given.
scoredResultsOf(query, results, allEntries) ==
    LET avgDocLength == avgDocLengthOf(allEntries)
        allDocuments == allDocumentsOf(allEntries)
    IN  [i \in 1..Len(results) |->
            [results[i] EXCEPT
                !.score = finalScoreOf(query, results[i], avgDocLength, allDocuments)]]

\* The ranking that leaves out the final sort.
rankResults_unsorted(query, results, allEntries) ==
    IF Len(results) = 0 THEN <<>>
    ELSE scoredResultsOf(query, results, allEntries)

\* rankResults
rankResults(query, results, allEntries) ==
    IF Len(results) = 0 THEN <<>>
    ELSE sortByScore(scoredResultsOf(query, results, allEntries))

\* ------------------------------------------------------------------------
\* src/lib/search.ts: searchKnowledgeBase
\* ------------------------------------------------------------------------

\* How the body of the try block completes: by a return of a result list, or
\* by a throw at one of its steps.
returned(value, scored, expanded) ==
    [kind |-> "return", value |-> value, at |-> "none", scored |-> scored,
     expanded |-> expanded]

thrown(step) ==
    [kind |-> "throw", value |-> <<>>, at |-> step, scored |-> <<>>, expanded |-> <<>>]

\* The first-pass results of all entries; reading a field of an entry that
\* lacks it throws.
scoreAll(allEntries, normalizedQuery, queryTerms, expandedTerms) ==
    [i \in 1..Len(allEntries) |->
        scoreEntry(allEntries[i], normalizedQuery, queryTerms, expandedTerms, allEntries)]

\* Lines 33-34: the terms of the expanded query that are not query terms.
expandedTermsOf(normalizedQuery, queryTerms, allEntries) ==
    LET expandedQuery == expandQuery(normalizedQuery, allEntries)
        parts         == splitWhitespace(expandedQuery)
    IN  filterIdx(parts, {i \in 1..Len(parts) : parts[i] \notin seqElems(queryTerms)}, 1)

\* The search that ranks every entry above the threshold and truncates after
\* the second pass.
searchTerms_rankedBeforeSlice(normalizedQuery, queryTerms, settings, allEntries) ==
    LET expandedTerms == expandedTermsOf(normalizedQuery, queryTerms, allEntries)
    IN  IF after(expandedTerms, \E i \in 1..Len(allEntries) : isMalformed(allEntries[i]))
        THEN thrown("scoring")
        ELSE
        LET scoredEntries   == scoreAll(allEntries, normalizedQuery, queryTerms,
                                        expandedTerms)
            filteredResults == sortByScore(filterByThreshold(scoredEntries, settings))
        IN  after(scoredEntries, after(filteredResults,
                returned(slice0(rankResults(normalizedQuery, filteredResults, allEntries),
                                settings.maxResults),
                         scoredEntries, expandedTerms)))

\* Lines 32-215: the search for a query that has terms.
searchTerms(normalizedQuery, queryTerms, settings, allEntries) ==
    LET expandedTerms == expandedTermsOf(normalizedQuery, queryTerms, allEntries)
    IN  IF after(expandedTerms, \E i \in 1..Len(allEntries) : isMalformed(allEntries[i]))
        THEN thrown("scoring")
        ELSE
        LET scoredEntries   == scoreAll(allEntries, normalizedQuery, queryTerms,
                                        expandedTerms)
            filteredResults == slice0(sortByScore(filterByThreshold(scoredEntries,
                                                                    settings)),
                                      settings.maxResults)
        IN  after(scoredEntries, after(filteredResults,
                returned(rankResults(normalizedQuery, filteredResults, allEntries),
                         scoredEntries, expandedTerms)))

\* Line 26: the query in lower case, trimmed.
normalizedQueryOf(query) == trim(toLowerCase(query))

\* The terms of a query with the cutoff at one character.
queryTermsOf_cutoffOne(query) == tokensLongerThan(normalizedQueryOf(query), 1)

\* Line 27: the tokens of the query longer than 2 characters.
queryTermsOf(query) == tokensLongerThan(normalizedQueryOf(query), 2)

\* The body that answers a blank query with every entry of the store.
searchBody_blankMatchesAll(query, settings, allEntries) ==
    IF trim(query) = <<>>
    THEN returned([i \in 1..Len(allEntries) |->
                      [entry |-> allEntries[i], score |-> 0, matches |-> <<>>]],
                  <<>>, <<>>)
    ELSE IF Len(queryTermsOf(query)) = 0 THEN returned(<<>>, <<>>, <<>>)
         ELSE searchTerms(normalizedQueryOf(query), queryTermsOf(query), settings,
                          allEntries)

\* The body of the try block.
searchBody(query, settings, allEntries) ==
    IF trim(query) = <<>> THEN returned(<<>>, <<>>, <<>>)
    ELSE IF Len(queryTermsOf(query)) = 0 THEN returned(<<>>, <<>>, <<>>)
         ELSE searchTerms(normalizedQueryOf(query), queryTermsOf(query), settings,
                          allEntries)

\* A catch clause that passes the exception on to the caller.
catchAll_rethrow(completion) ==
    IF completion.kind = "throw"
    THEN [outcome |-> "rejected", results |-> <<>>, thrownAt |-> completion.at,
          scoredEntries |-> <<>>, expandedTerms |-> <<>>]
    ELSE [outcome |-> "resolved", results |-> completion.value, thrownAt |-> "none",
          scoredEntries |-> completion.scored, expandedTerms |-> completion.expanded]

\* The catch clause around the body: a throw is logged and [] is returned.
catchAll(completion) ==
    IF completion.kind = "throw"
    THEN [outcome |-> "resolved", results |-> <<>>, thrownAt |-> completion.at,
          scoredEntries |-> <<>>, expandedTerms |-> <<>>]
    ELSE [outcome |-> "resolved", results |-> completion.value, thrownAt |-> "none",
          scoredEntries |-> completion.scored, expandedTerms |-> completion.expanded]

\* searchKnowledgeBase, for the settings and the entries its reads deliver.
searchKnowledgeBase(query, settings, allEntries) ==
    catchAll(searchBody(query, settings, allEntries))

\* ------------------------------------------------------------------------
\* The inputs
\* ------------------------------------------------------------------------

\* The largest number of entries in the collection.
MaxEntries == 2

sama == <<"s", "a", "m", "a">>
zed  == <<"z", "e", "d">>

wellFormed(id, title, content, keywords) ==
    [id |-> id, title |-> title, content |-> content, keywords |-> keywords,
     missing |-> {}]

\* The entries an import can bring into the store.
\*   A  title "Sama xy": holds the term sama and the phrase "sama xy"
\*   B  title "wx": shares nothing with sama but the keyword
\*   F  title "samb": one edit away from sama
\*   X  a text close to the query sama, source of expansion terms
\*   G  keyword "samaxy", one edit away from the query sambxy, and nothing
\*      else in common with it
\*   M  an entry without content, N an entry without keywords
EntryPool == {
    wellFormed("A", <<"S", "a", "m", "a", " ", "x", "y">>, zed, <<sama>>),
    wellFormed("B", <<"w", "x">>, zed, <<sama>>),
    wellFormed("F", <<"s", "a", "m", "b">>, zed, <<sama>>),
    wellFormed("X", sama, <<"s", "a", "m", "b", " ", "S", "a", "m", "a", "s">>,
               << <<"S", "a", "m", "a", "s">>, <<"x", "y">> >>),
    wellFormed("G", <<"w", "x">>, zed, << <<"s", "a", "m", "a", "x", "y">> >>),
    [id |-> "M", title |-> sama, content |-> <<>>, keywords |-> <<>>,
     missing |-> {"content"}],
    [id |-> "N", title |-> sama, content |-> zed, keywords |-> <<>>,
     missing |-> {"keywords"}] }

\* The queries a caller passes: "", "  ", "wx", "sama", " Sama ", "sama xy", "ama",
\* "sambxy", "sam".
Queries == {
    <<>>,
    <<" ", " ">>,
    <<"w", "x">>,
    sama,
    <<" ", "S", "a", "m", "a", " ">>,
    <<"s", "a", "m", "a", " ", "x", "y">>,
    <<"a", "m", "a">>,
    <<"s", "a", "m", "b", "x", "y">>,
    <<"s", "a", "m">> }

\* defaultSettings: relevanceThreshold 0.5, maxResults 3.
defaultSettings == [relevanceThreshold |-> SCALE \div 2, maxResults |-> 3]

\* The settings updateSettings is given: the thresholds 0.1, 0.5 and 0.9 of the
\* slider, and maxResults 1 and 3 of the slider and 0, which updateSettings
\* stores as it stores any number.
SettingsValues ==
    [relevanceThreshold : {SCALE \div 10, SCALE \div 2, (9 * SCALE) \div 10},
     maxResults : {0, 1, 3}]

\* ------------------------------------------------------------------------
\* The state
\* ------------------------------------------------------------------------

VARIABLES
    entries,        \* what getAllEntries delivers, in the order of the store
    settingsStore,  \* the settings store: empty, or the record "app-settings"
    pc,             \* "idle", or "returned" while a caller holds a result
    query,          \* the query of the call that returned
    results,        \* the list that call resolved to
    outcome,        \* "none", "resolved" or "rejected": how its promise settled
    thrownAt,       \* the step of the call that threw, "none" if none did
    scoredEntries,  \* the first-pass results of the call, before the filter
    expandedTerms,  \* the expanded terms the call scored with
    applied,        \* the helper applied on its own: its name, arguments, value
    earlier,        \* the call whose result was held when the present call began
    recentSearches, \* the recentSearches store: records of query and timestamp
    now,            \* what Date.now() last returned
    registry,       \* the module registry: modules, entriesByModule, allEntries
    dbEntries,      \* the entries object store of the database
    listing,        \* the last call of getAllEntries: what it read and returned
    isInitialized,  \* the flag of the database module
    modulesStore,   \* the modules object store: the ids of its records
    populated,      \* how many times populateDefaultData has completed
    initCalls       \* the invocations of initializeDatabase: where each stands

vars == <<entries, settingsStore, pc, query, results, outcome, thrownAt,
          scoredEntries, expandedTerms, applied, earlier, recentSearches, now,
          registry, dbEntries, listing, isInitialized, modulesStore,
          populated, initCalls>>

\* The variables of the recent searches.
recentVars == <<recentSearches, now>>

\* The variables of the module registry and of the entries store.
registryVars == <<registry, dbEntries, listing>>

\* The variables of the initialization of the database.
initVars == <<isInitialized, modulesStore, populated, initCalls>>

\* The variables of the database module.
dbVars == <<recentVars, registryVars, initVars>>

\* The registry with no module registered.
emptyRegistry == [modules |-> <<>>, entriesByModule |-> <<>>, allEntries |-> <<>>]

\* getAllEntries has not been called.
notListed == [outcome |-> "none", failed |-> FALSE, read |-> <<>>, value |-> <<>>]

\* The most invocations of initializeDatabase that are under way at a time.
MaxInvocations == 3

Invocations == 1..MaxInvocations

\* An invocation of initializeDatabase that has not been made.
notCalled == [at |-> "none", moduleCount |-> 0]

\* No helper has been applied on its own.
notApplied == [fn |-> "none", args |-> <<>>, value |-> <<>>]

\* getSettings: the stored record, defaultSettings when there is none.
getSettings == IF settingsStore = <<>> THEN defaultSettings ELSE settingsStore[1]

Init ==
    /\ entries = <<>>
    /\ settingsStore = <<>>
    /\ pc = "idle"
    /\ query = <<>>
    /\ results = <<>>
    /\ outcome = "none"
    /\ thrownAt = "none"
    /\ scoredEntries = <<>>
    /\ expandedTerms = <<>>
    /\ applied = notApplied
    /\ earlier = <<>>
    /\ recentSearches = {}
    /\ now = 0
    /\ registry = emptyRegistry
    /\ dbEntries = {}
    /\ listing = notListed
    /\ isInitialized = FALSE
    /\ modulesStore = {}
    /\ populated = 0
    /\ initCalls = [i \in Invocations |-> notCalled]

callVars == <<query, results, outcome, thrownAt, scoredEntries, expandedTerms>>

\* importDatabase: an entry whose id the store does not hold is added as it
\* is; the store keeps its entries in the order of their ids.
ImportEntry(e, pos) ==
    /\ pc = "idle"
    /\ Len(entries) < MaxEntries
    /\ \A i \in 1..Len(entries) : entries[i].id # e.id
    /\ pos \in 0..Len(entries)
    /\ entries' = SubSeq(entries, 1, pos) \o <<e>> \o SubSeq(entries, pos + 1, Len(entries))
    /\ UNCHANGED <<settingsStore, pc, callVars, applied, earlier, dbVars>>

\* deleteKnowledgeEntry
DeleteEntry(i) ==
    /\ pc = "idle"
    /\ i \in 1..Len(entries)
    /\ entries' = SubSeq(entries, 1, i - 1) \o SubSeq(entries, i + 1, Len(entries))
    /\ UNCHANGED <<settingsStore, pc, callVars, applied, earlier, dbVars>>

\* updateSettings
UpdateSettings(s) ==
    /\ pc = "idle"
    /\ settingsStore' = <<s>>
    /\ UNCHANGED <<entries, pc, callVars, applied, earlier, dbVars>>

\* A call of searchKnowledgeBase, from its first line to the settling of its
\* promise.
Search(q) ==
    /\ pc = "idle"
    /\ \E r \in {searchKnowledgeBase(q, getSettings, entries)} :
           /\ query' = q
           /\ results' = r.results
           /\ outcome' = r.outcome
           /\ thrownAt' = r.thrownAt
           /\ scoredEntries' = r.scoredEntries
           /\ expandedTerms' = r.expandedTerms
    /\ pc' = "returned"
    /\ UNCHANGED <<entries, settingsStore, applied, earlier, dbVars>>

\* The caller takes the result and goes on.
TakeResult ==
    /\ pc = "returned"
    /\ pc' = "idle"
    /\ query' = <<>>
    /\ results' = <<>>
    /\ outcome' = "none"
    /\ thrownAt' = "none"
    /\ scoredEntries' = <<>>
    /\ expandedTerms' = <<>>
    /\ earlier' = <<>>
    /\ UNCHANGED <<entries, settingsStore, applied, dbVars>>

Next ==
    \/ \E e \in EntryPool, pos \in 0..MaxEntries : ImportEntry(e, pos)
    \/ \E i \in 1..MaxEntries : DeleteEntry(i)
    \/ \E s \in SettingsValues : UpdateSettings(s)
    \/ \E q \in Queries : Search(q)
    \/ TakeResult

Spec == Init /\ [][Next]_vars

\* ------------------------------------------------------------------------
\* The helpers applied on their own
\* ------------------------------------------------------------------------

\* The longest string the string helpers are applied to, and the largest
\* collection expandQuery is applied to.
MaxLen == 3
MaxCorpus == 2

storeVars == <<entries, settingsStore, pc, callVars>>

\* The characters of the strings the string helpers are applied to.
Alphabet == {"a", "b"}

\* The strings of a's and b's of a length up to n.
Strings(n) == UNION {[1..k -> Alphabet] : k \in 0..n}

\* The sequences without repetition of up to n elements of S.
Arrangements(S, n) ==
    {seq \in UNION {[1..k -> S] : k \in 0..n} :
        \A i, j \in 1..Len(seq) : i # j => seq[i] # seq[j]}

\* The collections expandQuery is applied to:
\*   X  and F of the store
\*   Y  title "sama", content "samd samax": two more terms close to sama
\*   Z  title "same", content "sama samd": close to the query, with a stop word
\*      one edit away from sama
ExpandPool ==
    {e \in EntryPool : e.id \in {"X", "F"}} \cup {
    wellFormed("Y", sama, <<"s", "a", "m", "d", " ", "s", "a", "m", "a", "x">>, <<>>),
    wellFormed("Z", <<"s", "a", "m", "e">>,
               <<"s", "a", "m", "a", " ", "s", "a", "m", "d">>, <<>>) }

\* The queries expandQuery is applied to: "", "wx", "sama", "Sama", "sama xy".
ExpandQueries == {
    <<>>,
    <<"w", "x">>,
    sama,
    <<"S", "a", "m", "a">>,
    <<"s", "a", "m", "a", " ", "x", "y">> }

\* A helper keeps no state: each application is made on its own, from the
\* state in which none has been made.
ApplyExpandQuery(q, es) ==
    /\ applied.fn = "none"
    /\ applied' = [fn |-> "expandQuery", args |-> <<q, es>>, value |-> expandQuery(q, es)]
    /\ UNCHANGED <<storeVars, earlier, dbVars>>

ApplyLevenshteinDistance(a, b) ==
    /\ applied.fn = "none"
    /\ applied' = [fn |-> "levenshteinDistance", args |-> <<a, b>>,
                   value |-> levenshteinDistance(a, b)]
    /\ UNCHANGED <<storeVars, earlier, dbVars>>

ApplyLevenshteinSimilarity(a, b) ==
    /\ applied.fn = "none"
    /\ applied' = [fn |-> "levenshteinSimilarity", args |-> <<a, b>>,
                   value |-> levenshteinSimilarity(a, b)]
    /\ UNCHANGED <<storeVars, earlier, dbVars>>

\* The terms the sets given to jaccardSimilarity are made of.
TokenPool == {sama, <<"s", "a", "m", "b">>}

ApplyJaccardSimilarity(set1, set2) ==
    /\ applied.fn = "none"
    /\ applied' = [fn |-> "jaccardSimilarity", args |-> <<set1, set2>>,
                   value |-> jaccardSimilarity(set1, set2)]
    /\ UNCHANGED <<storeVars, earlier, dbVars>>

\* The texts calculateSimilarity is applied to:
\* "", "ab", "ab cd", "sama", "sama xy", "Sama samb".
SimilarityTexts == {
    <<>>,
    <<"a", "b">>,
    <<"a", "b", " ", "c", "d">>,
    sama,
    <<"s", "a", "m", "a", " ", "x", "y">>,
    <<"S", "a", "m", "a", " ", "s", "a", "m", "b">> }

ApplyCalculateSimilarity(text1, text2) ==
    /\ applied.fn = "none"
    /\ applied' = [fn |-> "calculateSimilarity", args |-> <<text1, text2>>,
                   value |-> calculateSimilarity(text1, text2)]
    /\ UNCHANGED <<storeVars, earlier, dbVars>>

NextHelpers ==
    \/ \E q \in ExpandQueries, es \in Arrangements(ExpandPool, MaxCorpus) :
           ApplyExpandQuery(q, es)
    \/ \E a, b \in Strings(MaxLen) : ApplyLevenshteinDistance(a, b)
    \/ \E a, b \in Strings(MaxLen) : ApplyLevenshteinSimilarity(a, b)
    \/ \E set1, set2 \in SUBSET TokenPool : ApplyJaccardSimilarity(set1, set2)
    \/ \E text1, text2 \in SimilarityTexts : ApplyCalculateSimilarity(text1, text2)

SpecHelpers == Init /\ [][NextHelpers]_vars

\* ---------------------------------------------------------------------------
\* Calls one after another: a call begins while the result of the call before
\* it is still held, and ends when its scans have ended.
\* ---------------------------------------------------------------------------

\* The entries of the store in these runs: A, F and X.
CallPool == {e \in EntryPool : e.id \in {"A", "F", "X"}}

\* The queries of these runs: "", "wx", "sama", "sam".
CallQueries == {
    <<>>,
    <<"w", "x">>,
    sama,
    <<"s", "a", "m">> }

\* The settings stored in these runs: relevanceThreshold 0.1, maxResults 1.
CallSettings == {[relevanceThreshold |-> SCALE \div 10, maxResults |-> 1]}

\* The scan `while ((pos = text.indexOf(term, pos)) !== -1) { ...; pos +=
\* term.length }` ends: the empty term is found at every position and moves
\* pos by nothing.
scanEnds(term) == Len(term) > 0

\* Every scan of the call ends.  No scan is begun when the call returns before
\* the scoring, when there is no entry, or when the first entry lacks the
\* title or the content the scoring reads before its scans.
scansEnd(q, allEntries) ==
    IF trim(q) = <<>> THEN TRUE
    ELSE IF Len(queryTermsOf(q)) = 0 THEN TRUE
    ELSE IF Len(allEntries) = 0 THEN TRUE
    ELSE IF fieldMissing(allEntries[1], "title") THEN TRUE
    ELSE IF fieldMissing(allEntries[1], "content") THEN TRUE
    ELSE LET terms == queryTermsOf(q)
                      \o expandedTermsOf(normalizedQueryOf(q), queryTermsOf(q), allEntries)
         IN  \A k \in 1..Len(terms) : scanEnds(terms[k])

\* A call of searchKnowledgeBase begins; the caller may still hold the result
\* of the call before it.
BeginSearch(q) ==
    /\ pc \in {"idle", "returned"}
    /\ pc' = "searching"
    /\ query' = q
    /\ earlier' = IF pc = "returned"
                  THEN << [query |-> query, results |-> results, outcome |-> outcome] >>
                  ELSE <<>>
    /\ UNCHANGED <<entries, settingsStore, results, outcome, thrownAt, scoredEntries,
                   expandedTerms, applied, dbVars>>

\* The call that adds its results to a list kept from call to call.
EndSearch_accumulating ==
    /\ pc = "searching"
    /\ scansEnd(query, entries)
    /\ \E r \in {searchKnowledgeBase(query, getSettings, entries)} :
           /\ results' = results \o r.results
           /\ outcome' = r.outcome
           /\ thrownAt' = r.thrownAt
           /\ scoredEntries' = r.scoredEntries
           /\ expandedTerms' = r.expandedTerms
    /\ pc' = "returned"
    /\ UNCHANGED <<entries, settingsStore, query, applied, earlier, dbVars>>

\* The call that lowercases the titles of the entries it was given.
EndSearch_lowercasesTitles ==
    /\ pc = "searching"
    /\ scansEnd(query, entries)
    /\ \E r \in {searchKnowledgeBase(query, getSettings, entries)} :
           /\ results' = r.results
           /\ outcome' = r.outcome
           /\ thrownAt' = r.thrownAt
           /\ scoredEntries' = r.scoredEntries
           /\ expandedTerms' = r.expandedTerms
    /\ entries' = [i \in 1..Len(entries) |->
                      [entries[i] EXCEPT !.title = toLowerCase(entries[i].title)]]
    /\ pc' = "returned"
    /\ UNCHANGED <<settingsStore, query, applied, earlier, dbVars>>

\* The call runs to its end and its promise settles.
EndSearch ==
    /\ pc = "searching"
    /\ scansEnd(query, entries)
    /\ \E r \in {searchKnowledgeBase(query, getSettings, entries)} :
           /\ results' = r.results
           /\ outcome' = r.outcome
           /\ thrownAt' = r.thrownAt
           /\ scoredEntries' = r.scoredEntries
           /\ expandedTerms' = r.expandedTerms
    /\ pc' = "returned"
    /\ UNCHANGED <<entries, settingsStore, query, applied, earlier, dbVars>>

NextCalls ==
    \/ \E e \in CallPool, pos \in 0..MaxEntries : ImportEntry(e, pos)
    \/ \E i \in 1..MaxEntries : DeleteEntry(i)
    \/ \E s \in CallSettings : UpdateSettings(s)
    \/ \E q \in CallQueries : BeginSearch(q)
    \/ EndSearch
    \/ TakeResult

SpecCalls == Init /\ [][NextCalls]_vars

\* ---------------------------------------------------------------------------
\* src/lib/database.ts: the recent searches
\* ---------------------------------------------------------------------------

\* The variables of the search and of the helpers.
searchVars == <<entries, settingsStore, pc, callVars, applied, earlier>>

\* Line 459: the number of recent searches kept.
RecentLimit == 10

\* The latest value of the clock.
MaxNow == 2

\* The queries added to the recent searches; a number stands for a query
\* string, in the order of the strings.
RecentQueries == 1..(RecentLimit + 2)

\* The queries a caller searches for again and again.
SearchedAgain == {1, 2}

\* The least query that is not in the store and is not searched for again: it
\* stands for any query that is new to the store.
newQuery(store) ==
    LET fresh == {q \in RecentQueries \ SearchedAgain : \A r \in store : r.query # q}
    IN  IF fresh = {} THEN 0 ELSE SetMin(fresh)

\* db.put("recentSearches", record): the key path is the query, so a record
\* with the same query is replaced.
putRecent(store, record) ==
    {r \in store : r.query # record.query} \cup {record}

\* db.getAllFromIndex("recentSearches", "by-timestamp"): the records in the
\* order of the index, by timestamp and then by key.
RECURSIVE byTimestamp(_)
byTimestamp(store) ==
    IF store = {} THEN <<>>
    ELSE LET first == CHOOSE r \in store :
                          \A o \in store :
                              \/ r.timestamp < o.timestamp
                              \/ r.timestamp = o.timestamp /\ r.query <= o.query
         IN  <<first>> \o byTimestamp(store \ {first})

\* The sort that puts the oldest record first.
RECURSIVE insertNewestFirst_oldestFirst(_, _)
insertNewestFirst_oldestFirst(sorted, x) ==
    IF sorted = <<>> THEN <<x>>
    ELSE IF x.timestamp < sorted[1].timestamp THEN <<x>> \o sorted
    ELSE <<sorted[1]>> \o insertNewestFirst_oldestFirst(Tail(sorted), x)

\* allSearches.sort((a, b) => b.timestamp - a.timestamp): stable, newest
\* first.
RECURSIVE insertNewestFirst(_, _)
insertNewestFirst(sorted, x) ==
    IF sorted = <<>> THEN <<x>>
    ELSE IF x.timestamp > sorted[1].timestamp THEN <<x>> \o sorted
    ELSE <<sorted[1]>> \o insertNewestFirst(Tail(sorted), x)

RECURSIVE sortNewestFirst(_, _, _)
sortNewestFirst(seq, i, sorted) ==
    IF i > Len(seq) THEN sorted
    ELSE sortNewestFirst(seq, i + 1, insertNewestFirst(sorted, seq[i]))

\* Lines 458-467: the store after the searches beyond the tenth are deleted.
trimRecent(store) ==
    LET allSearches == byTimestamp(store)
    IN  IF Len(allSearches) > RecentLimit
        THEN LET sorted == sortNewestFirst(allSearches, 1, <<>>)
             IN  store \ {sorted[i] : i \in (RecentLimit + 1)..Len(sorted)}
        ELSE store

\* addRecentSearch, called when the clock shows t.
addRecentSearch(store, q, t) ==
    trimRecent(putRecent(store, [query |-> q, timestamp |-> t]))

\* A call of addRecentSearch from its first line to its last; the caller
\* awaits it before it makes the next one.  The clock has gone on by dt.
AddRecentSearch(q, dt) ==
    /\ q \in SearchedAgain \/ q = newQuery(recentSearches)
    /\ now + dt <= MaxNow
    /\ now' = now + dt
    /\ recentSearches' = addRecentSearch(recentSearches, q, now + dt)
    /\ UNCHANGED <<searchVars, registryVars, initVars>>

NextRecent ==
    \/ \E q \in RecentQueries, dt \in {0, 1} : AddRecentSearch(q, dt)

SpecRecent == Init /\ [][NextRecent]_vars

\* ---------------------------------------------------------------------------
\* src/lib/database.ts: the module registry and getAllEntries
\* ---------------------------------------------------------------------------

\* The ids entries have, in the order of the keys of the entries store; d is
\* the id of the default entry, n1 and n2 are ids that nanoid() generates.
EntryIds == <<"a", "b", "c", "d", "n1", "n2">>

\* The ids nanoid() generates.
NanoIds == {"n1", "n2"}

\* The place of an id in the order of the keys.
idRank(id) == CHOOSE i \in 1..Len(EntryIds) : EntryIds[i] = id

\* An entry as the registry and the entries store hold it; an entry of a
\* definition may come without an id (the empty string) and with any moduleId.
\* The timestamps createdAt and updatedAt are left out.
entryOf(id, moduleId, title) == [id |-> id, moduleId |-> moduleId, title |-> title]

\* The definitions given to registerModule:
\*   m1 with the entries a and an entry without id, which names another module
\*   m1 again, with the entry b
\*   m2 with an entry that has the id a as well
\*   m2 with no entry
\*   a definition without id, and one without name
ModuleDefinitions == {
    [id |-> "m1", name |-> "One",
     entries |-> << entryOf("a", "m1", "t1"), entryOf("", "m2", "t2") >>],
    [id |-> "m1", name |-> "One",
     entries |-> << entryOf("b", "m1", "t3") >>],
    [id |-> "m2", name |-> "Two",
     entries |-> << entryOf("a", "", "t4") >>],
    [id |-> "m2", name |-> "Two", entries |-> <<>>],
    [id |-> "", name |-> "Three",
     entries |-> << entryOf("c", "", "t5") >>],
    [id |-> "m3", name |-> "",
     entries |-> << entryOf("c", "m3", "t5") >>] }

\* The entries put into the entries store.
DbEntryPool == { entryOf("a", "m0", "t6"), entryOf("c", "m0", "t7") }

\* modules.set(id, module): a key of the Map keeps its place, a new key comes
\* last.
mapSet(map, module) ==
    IF \E i \in 1..Len(map) : map[i].id = module.id
    THEN [i \in 1..Len(map) |-> IF map[i].id = module.id THEN module ELSE map[i]]
    ELSE Append(map, module)

\* The list that keeps the entries of the module registered again.
withoutModule_kept(list, moduleId) ==
    list

\* allEntries.filter((entry) => entry.moduleId !== module.id)
withoutModule(list, moduleId) ==
    filterIdx(list, {i \in 1..Len(list) : list[i].moduleId # moduleId}, 1)

\* Lines 854-860: the entries of the definition with their ids and the id of
\* the module; nano is the id nanoid() generates for an entry without one.
processEntries(moduleDefinition, nano) ==
    [i \in 1..Len(moduleDefinition.entries) |->
        [moduleDefinition.entries[i] EXCEPT
            !.id = IF moduleDefinition.entries[i].id = "" THEN nano
                   ELSE moduleDefinition.entries[i].id,
            !.moduleId = moduleDefinition.id]]

\* moduleRegistry.registerModule: the registry after the call.
registerModule(reg, moduleDefinition, nano) ==
    IF moduleDefinition.id = "" \/ moduleDefinition.name = "" THEN reg
    ELSE LET module  == [id |-> moduleDefinition.id, name |-> moduleDefinition.name]
             processed == processEntries(moduleDefinition, nano)
         IN  [modules |-> mapSet(reg.modules, module),
              entriesByModule |->
                  [m \in DOMAIN reg.entriesByModule \cup {module.id} |->
                      IF m = module.id THEN processed ELSE reg.entriesByModule[m]],
              allEntries |-> withoutModule(reg.allEntries, module.id) \o processed]

\* db.getAll("entries"): the entries in the order of their keys.
RECURSIVE dbGetAll(_)
dbGetAll(store) ==
    IF store = {} THEN <<>>
    ELSE LET first == CHOOSE e \in store : \A o \in store : idRank(e.id) <= idRank(o.id)
         IN  <<first>> \o dbGetAll(store \ {first})

\* The list that takes every registry entry.
RECURSIVE pushNew_all(_, _, _)
pushNew_all(list, registryEntries, i) ==
    IF i > Len(registryEntries) THEN list
    ELSE pushNew_all(Append(list, registryEntries[i]), registryEntries, i + 1)

\* Lines 355-359: each registry entry is pushed unless the list has an entry
\* with its id.
RECURSIVE pushNew(_, _, _)
pushNew(list, registryEntries, i) ==
    IF i > Len(registryEntries) THEN list
    ELSE pushNew(IF \E k \in 1..Len(list) : list[k].id = registryEntries[i].id
                 THEN list
                 ELSE Append(list, registryEntries[i]),
                 registryEntries, i + 1)

\* Lines 344-366, getAllEntries: what the call returns; a read that fails
\* throws, and the catch returns [].
getAllEntries(store, registryEntries, fails) ==
    IF fails
    THEN [outcome |-> "resolved", failed |-> TRUE, read |-> <<>>, value |-> <<>>]
    ELSE [outcome |-> "resolved", failed |-> FALSE,
          read |-> <<dbGetAll(store), registryEntries>>,
          value |-> pushNew(dbGetAll(store), registryEntries, 1)]

RegisterModule(moduleDefinition, nano) ==
    /\ registry' = registerModule(registry, moduleDefinition, nano)
    /\ UNCHANGED <<searchVars, recentVars, initVars, dbEntries, listing>>

\* updateKnowledgeEntry and importDatabase: db.put("entries", entry).
PutDbEntry(e) ==
    /\ dbEntries' = {o \in dbEntries : o.id # e.id} \cup {e}
    /\ UNCHANGED <<searchVars, recentVars, initVars, registry, listing>>

\* deleteKnowledgeEntry: db.delete("entries", id).
DeleteDbEntry(id) ==
    /\ \E o \in dbEntries : o.id = id
    /\ dbEntries' = {o \in dbEntries : o.id # id}
    /\ UNCHANGED <<searchVars, recentVars, initVars, registry, listing>>

\* A call of getAllEntries; reading the database fails or does not.
GetAllEntries(fails) ==
    /\ listing' = getAllEntries(dbEntries, registry.allEntries, fails)
    /\ UNCHANGED <<searchVars, recentVars, initVars, registry, dbEntries>>

NextRegistry ==
    \/ \E moduleDefinition \in ModuleDefinitions, nano \in NanoIds :
           RegisterModule(moduleDefinition, nano)
    \/ \E e \in DbEntryPool : PutDbEntry(e)
    \/ \E i \in 1..Len(EntryIds) : DeleteDbEntry(EntryIds[i])
    \/ \E fails \in BOOLEAN : GetAllEntries(fails)

SpecRegistry == Init /\ [][NextRegistry]_vars

\* ---------------------------------------------------------------------------
\* What is observed of a call that has returned
\* ---------------------------------------------------------------------------

\* A call has returned and its result has not been taken yet.  The store and
\* the settings are those the call ran with.
called == pc = "returned"

\* The first pass scored every entry of the collection.
scoringCompleted == called /\ Len(entries) > 0 /\ Len(scoredEntries) = Len(entries)

\* The text is empty or only whitespace.
isBlank(text) == \A i \in 1..Len(text) : isSpace(text[i])

\* The whitespace-separated tokens of the normalized query, of any length.
queryTokens(q) ==
    {t \in seqElems(splitWhitespace(normalizedQueryOf(q))) : Len(t) > 0}

\* The text shares something with the query: it holds the normalized query or
\* one of its tokens.
overlaps(text, q) ==
    \/ includes(toLowerCase(text), normalizedQueryOf(q))
    \/ \E t \in queryTokens(q) : includes(toLowerCase(text), t)

isReturned(entry) == \E k \in 1..Len(results) : results[k].entry = entry

\* The entries of the first pass that come before entry i in its sorted order.
aheadOf(i) ==
    {j \in 1..Len(scoredEntries) :
        /\ passesThreshold(scoredEntries[j], getSettings)
        /\ \/ scoredEntries[j].score > scoredEntries[i].score
           \/ scoredEntries[j].score = scoredEntries[i].score /\ j < i}

\* The first-pass results as line 210 leaves them, before the second pass.
firstPassResults ==
    slice0(sortByScore(filterByThreshold(scoredEntries, getSettings)),
           getSettings.maxResults)

\* The thresholds the settings can hold.
Thresholds == {s.relevanceThreshold : s \in SettingsValues \cup {defaultSettings}}

\* The number of results of the same call under another threshold.
countAt(t) ==
    Len(searchKnowledgeBase(query, [getSettings EXCEPT !.relevanceThreshold = t],
                            entries).results)

\* Entries i and j have the same content and keywords, the title of i is the
\* normalized query, and the title and content of j share nothing with it.
exactTitlePair(i, j) ==
    /\ i # j
    /\ ~isMalformed(entries[i]) /\ ~isMalformed(entries[j])
    /\ entries[i].content = entries[j].content
    /\ entries[i].keywords = entries[j].keywords
    /\ toLowerCase(entries[i].title) = normalizedQueryOf(query)
    /\ ~overlaps(entries[j].title, query)
    /\ ~overlaps(entries[j].content, query)

\* The query is one term longer than 2 characters, entry i shares nothing with
\* it in title and content, and one of its keywords is the normalized query.
keywordOnly(i) ==
    /\ ~isMalformed(entries[i])
    /\ queryTermsOf(query) = <<normalizedQueryOf(query)>>
    /\ ~overlaps(entries[i].title, query)
    /\ ~overlaps(entries[i].content, query)
    /\ \E k \in 1..Len(entries[i].keywords) :
           toLowerCase(entries[i].keywords[k]) = normalizedQueryOf(query)

\* ---------------------------------------------------------------------------
\* Claims
\* ---------------------------------------------------------------------------

\* C1: a query that is empty or only whitespace is answered with the empty
\* list, whatever the entries and the settings are, and no error is raised.
C1_BlankQueryReturnsEmpty ==
    (called /\ isBlank(query)) =>
        (outcome = "resolved" /\ thrownAt = "none" /\ results = <<>>)

\* A whitespace-only query has been answered over a full store and stored settings.
C1_Witness ==
    /\ called /\ Len(query) > 0 /\ isBlank(query)
    /\ Len(entries) >= 2 /\ settingsStore # <<>>
    /\ results = <<>>

\* C2: the result has at most maxResults entries, for every maxResults >= 0,
\* 0 included.
C2_AtMostMaxResults ==
    called => Len(results) <= getSettings.maxResults

\* maxResults = 0 has cut a list of two entries that pass the threshold.
C2_Witness ==
    /\ scoringCompleted /\ getSettings.maxResults = 0
    /\ Len(filterByThreshold(scoredEntries, getSettings)) >= 2
    /\ results = <<>>

\* C3: every returned entry has a first-pass score strictly above
\* relevanceThreshold * 10; an entry at or below it is never returned.
C3_ReturnedAboveThreshold ==
    called =>
        \A k \in 1..Len(results) :
            \E i \in 1..Len(scoredEntries) :
                /\ scoredEntries[i].entry = results[k].entry
                /\ ~isNaN(scoredEntries[i].score)
                /\ scoredEntries[i].score > getSettings.relevanceThreshold * 10

\* One entry is returned while another one, whose first-pass score equals
\* relevanceThreshold * 10, is left out.
C3_Witness ==
    /\ scoringCompleted /\ Len(results) > 0
    /\ getSettings.relevanceThreshold > 0
    /\ \E i \in 1..Len(scoredEntries) :
           /\ scoredEntries[i].score = getSettings.relevanceThreshold * 10
           /\ ~isReturned(scoredEntries[i].entry)

\* C4: with the query, the entries and maxResults fixed, a higher
\* relevanceThreshold never gives more results.
C4_ThresholdMonotone ==
    called =>
        \A t \in Thresholds :
            /\ t <= getSettings.relevanceThreshold => Len(results) <= countAt(t)
            /\ t >= getSettings.relevanceThreshold => countAt(t) <= Len(results)

\* The call returned fewer results than it does under a lower threshold.
C4_Witness ==
    /\ called /\ Len(results) > 0
    /\ \E t \in Thresholds :
           t < getSettings.relevanceThreshold /\ Len(results) < countAt(t)

\* C5: the returned list is in non-increasing order of final score.
C5_SortedByFinalScore ==
    called =>
        \A k \in 1..(Len(results) - 1) :
            /\ ~isNaN(results[k].score) /\ ~isNaN(results[k + 1].score)
            /\ results[k].score >= results[k + 1].score

\* The second pass has put first an entry the first pass had not put first.
C5_Witness ==
    /\ called /\ Len(results) >= 2
    /\ results[1].score > results[2].score
    /\ results[1].entry # firstPassResults[1].entry

\* C6, as stated: of two entries of the same content and keywords, the one
\* whose title is the normalized query is given a strictly higher score than
\* the one whose title and content share nothing with the query, for every
\* query.
C6_ExactTitleScoresHigher_Original ==
    called =>
        \A i, j \in 1..Len(entries) :
            exactTitlePair(i, j) =>
                /\ Len(scoredEntries) = Len(entries)
                /\ scoredEntries[i].score > scoredEntries[j].score

\* C6, amended: the entry whose title is the normalized query is given a
\* strictly higher first-pass score whenever the two entries are scored, and
\* a strictly higher final score when both are returned; a query without a
\* token longer than 2 characters is answered with the empty list before any
\* entry is scored.
C6_ExactTitleScoresHigher ==
    called =>
        \A i, j \in 1..Len(entries) :
            exactTitlePair(i, j) =>
                IF queryTermsOf(query) = <<>>
                THEN scoredEntries = <<>> /\ results = <<>>
                ELSE Len(scoredEntries) = Len(entries) =>
                         /\ ~isNaN(scoredEntries[i].score)
                         /\ ~isNaN(scoredEntries[j].score)
                         /\ scoredEntries[i].score > scoredEntries[j].score
                         /\ \A a, b \in 1..Len(results) :
                                (/\ results[a].entry = entries[i]
                                 /\ results[b].entry = entries[j]) =>
                                    results[a].score > results[b].score

\* Both entries of such a pair have been scored and returned.
C6_Witness ==
    /\ scoringCompleted
    /\ \E i, j \in 1..Len(entries) :
           /\ exactTitlePair(i, j)
           /\ scoredEntries[i].score > scoredEntries[j].score
           /\ scoredEntries[j].score > 0
           /\ isReturned(entries[i]) /\ isReturned(entries[j])

\* C7: an exception thrown inside the search is caught there: the call
\* resolves to the empty list and never rejects.
C7_ThrowResolvesToEmpty ==
    called =>
        /\ outcome = "resolved"
        /\ thrownAt # "none" => results = <<>>

\* The scoring of an entry has thrown and the call has returned.
C7_Witness ==
    /\ called /\ thrownAt = "scoring"
    /\ outcome = "resolved" /\ results = <<>>

\* C8: an entry without title, content or keywords adds nothing and does not
\* stop the scoring of the other entries: every well-formed entry is scored.
C8_MalformedEntrySkipped ==
    (called /\ queryTermsOf(query) # <<>>) =>
        \A i \in 1..Len(entries) :
            ~isMalformed(entries[i]) =>
                \E j \in 1..Len(scoredEntries) : scoredEntries[j].entry = entries[i]

\* C9: a returned entry whose lowercased title holds the normalized query has a
\* title match of one span [p, p + Len(normalizedQuery)), p the first
\* occurrence of the query in the title.
C9_TitlePhraseSpan ==
    called =>
        \A k \in 1..Len(results) :
            LET titleText == toLowerCase(results[k].entry.title)
                nq        == normalizedQueryOf(query)
            IN  \A p \in 0..Len(titleText) :
                    (/\ matchAt(titleText, nq, p)
                     /\ \A p2 \in 0..(p - 1) : ~matchAt(titleText, nq, p2)) =>
                        \E m \in 1..Len(results[k].matches) :
                            /\ results[k].matches[m].field = "title"
                            /\ results[k].matches[m].positions
                                   = << <<p, p + Len(nq)>> >>

\* A returned entry holds in its title a query of two tokens, whose span no
\* single term has.
C9_Witness ==
    /\ called
    /\ Len(splitWhitespace(normalizedQueryOf(query))) >= 2
    /\ \E k \in 1..Len(results) :
           includes(toLowerCase(results[k].entry.title), normalizedQueryOf(query))

\* C10, as stated: for a query of one term, an entry that shares nothing with
\* it in title and content and has it as a keyword is returned with a score
\* above 0, and the +5 of the exact keyword match is the only signal of its
\* first-pass score.
C10_KeywordOnlyMatch_Original ==
    scoringCompleted =>
        \A i \in 1..Len(entries) :
            keywordOnly(i) =>
                /\ isReturned(entries[i])
                /\ scoredEntries[i].score > 0
                /\ scoredEntries[i].signals.keywordExact = 5 * SCALE
                /\ \A n \in signalNames \ {"keywordExact"} :
                       scoredEntries[i].signals[n] = 0

\* C10, amended: such an entry has a first-pass score of at least 9, made of
\* the exact keyword match (+5), the keyword holding the term (+2) and the
\* fuzzy keyword match (+2), to which only the signals of expanded terms can
\* add; the phrase and term signals of title and content, TF-IDF and Jaccard
\* add nothing.  It is returned exactly when that score is above
\* relevanceThreshold * 10 and fewer than maxResults entries come before it.
C10_KeywordOnlyMatch ==
    scoringCompleted =>
        \A i \in 1..Len(entries) :
            keywordOnly(i) =>
                LET signals == scoredEntries[i].signals
                IN  /\ signals.keywordExact >= 5 * SCALE
                    /\ signals.keywordTerms >= 2 * SCALE
                    /\ signals.keywordFuzzy >= 2 * SCALE
                    /\ \A n \in {"titlePhrase", "titleTerms", "contentPhrase",
                                 "contentTerms", "tfidf", "jaccard"} :
                           signals[n] = 0
                    /\ scoredEntries[i].score >= 9 * SCALE
                    /\ scoredEntries[i].score =
                           signals.keywordExact + signals.keywordContains
                           + signals.keywordTerms + signals.keywordFuzzy
                           + signals.titleExpanded + signals.contentExpanded
                    /\ isReturned(entries[i]) <=>
                           /\ passesThreshold(scoredEntries[i], getSettings)
                           /\ Cardinality(aheadOf(i)) < getSettings.maxResults

\* Such an entry is returned with a first-pass score of exactly 9.
C10_Witness ==
    /\ scoringCompleted
    /\ \E i \in 1..Len(entries) :
           /\ keywordOnly(i)
           /\ scoredEntries[i].score = 9 * SCALE
           /\ isReturned(entries[i])

\* Entry i is related to the query by nothing but a keyword close to one of its
\* terms: no title, content or keyword holds the query or one of its tokens,
\* and a keyword has a Levenshtein similarity above 0.8 to a query term.
fuzzyOnly(i) ==
    /\ ~isMalformed(entries[i])
    /\ ~overlaps(entries[i].title, query)
    /\ ~overlaps(entries[i].content, query)
    /\ \A k \in 1..Len(entries[i].keywords) : ~overlaps(entries[i].keywords[k], query)
    /\ \E k \in 1..Len(entries[i].keywords) :
           \E t \in seqElems(queryTermsOf(query)) :
               levenshteinSimilarity(t, toLowerCase(entries[i].keywords[k])) * 10
                   > 8 * SCALE

\* C11: under the default settings, an entry related to the query only by a
\* keyword whose Levenshtein similarity to a query term exceeds 0.8 gets a
\* fuzzy-keyword contribution above 0 and is returned.
C11_FuzzyKeywordReturned ==
    (scoringCompleted /\ getSettings = defaultSettings) =>
        \A i \in 1..Len(entries) :
            fuzzyOnly(i) =>
                /\ scoredEntries[i].signals.keywordFuzzy > 0
                /\ isReturned(entries[i])

\* The terms of a text: its whitespace-separated tokens that are not empty.
termsOf(text) ==
    LET parts == splitWhitespace(text)
    IN  filterIdx(parts, {i \in 1..Len(parts) : Len(parts[i]) > 0}, 1)

\* The original terms of a query given to expandQuery.
originalTerms(q) == tokensLongerThan(toLowerCase(q), 2)

\* expandQuery has been applied on its own.
expanded == applied.fn = "expandQuery"

\* C12: the output of expandQuery has at most (number of query terms longer
\* than 2 characters) + 3 terms, however many candidates the entries give.
C12_ExpansionCapped ==
    expanded =>
        Len(termsOf(applied.value)) <= Len(originalTerms(applied.args[1])) + 3

\* The entries gave more candidates than the cap lets through.
C12_Witness ==
    /\ expanded
    /\ Len(termsOf(expandQuery_uncapped(applied.args[1], applied.args[2])))
           > Len(originalTerms(applied.args[1])) + 3
    /\ Len(termsOf(applied.value)) = Len(originalTerms(applied.args[1])) + 3

\* The terms expandQuery has added to the original terms of the query.
addedTerms ==
    {t \in seqElems(termsOf(applied.value)) :
        t \notin seqElems(originalTerms(applied.args[1]))}

\* Term t is a token longer than 3 characters of the title + " " + content of
\* an entry whose similarity to the query exceeds 0.3.
takenFromSimilarEntry(t) ==
    \E k \in 1..Len(applied.args[2]) :
        LET text       == documentOf(applied.args[2][k])
            similarity == calculateSimilarity(applied.args[1], text)
        IN  /\ ~isNaN(similarity) /\ similarity * 10 > 3 * SCALE
            /\ t \in seqElems(splitWhitespace(toLowerCase(text)))
            /\ Len(t) > 3

\* Term t is close to an original term, inside one, or around one.
relatedToQuery(t) ==
    \E u \in seqElems(originalTerms(applied.args[1])) :
        \/ levenshteinSimilarity(u, t) * 10 > 7 * SCALE
        \/ \E p \in 0..Len(u) : matchAt(u, t, p)
        \/ \E p \in 0..Len(t) : matchAt(t, u, p)

\* C13: every term of the output of expandQuery that is not an original query
\* term is a token longer than 3 characters of an entry whose similarity to
\* the query exceeds 0.3, is not a stop word, and is related to an original
\* term: similarity above 0.7, substring or superstring.
C13_ExpansionTermsAdmitted ==
    expanded =>
        \A t \in addedTerms :
            /\ takenFromSimilarEntry(t)
            /\ t \notin stopWords
            /\ relatedToQuery(t)

\* A term has been added while the stop word "same", one edit away from the
\* query term and in an entry close to the query, has been left out.
C13_Witness ==
    /\ expanded
    /\ addedTerms # {}
    /\ \E t \in stopWords :
           /\ takenFromSimilarEntry(t)
           /\ relatedToQuery(t)
           /\ t \notin addedTerms

\* C14: over an empty collection expandQuery gives back the terms of the query
\* and nothing more, and the search returns the empty list for every query,
\* without an error.
C14_EmptyCollection ==
    (called /\ entries = <<>>) =>
        /\ outcome = "resolved" /\ thrownAt = "none"
        /\ results = <<>> /\ scoredEntries = <<>>
        /\ expandedTerms = <<>>
        /\ termsOf(expandQuery(normalizedQueryOf(query), entries))
               = setAddAll(<<>>, queryTermsOf(query))

\* A query with a term has been answered over the empty collection.
C14_Witness ==
    /\ called /\ entries = <<>>
    /\ queryTermsOf(query) # <<>>
    /\ results = <<>>

\* The text a span of a returned result covers, in the lowercased field.
spanText(result, record, span) ==
    LET text == IF record.field = "title"
                THEN toLowerCase(result.entry.title)
                ELSE toLowerCase(result.entry.content)
    IN  SubSeq(text, span[1] + 1, span[2])

\* Every span of the result covers one of the given strings.
spansCover(result, strings) ==
    \A m \in 1..Len(result.matches) :
        \A p \in 1..Len(result.matches[m].positions) :
            spanText(result, result.matches[m], result.matches[m].positions[p]) \in strings

\* The number of phrase and substring signals of the first pass that fired
\* for the result, each read from its contribution to the score.
substringSignalsFired(result) ==
    LET sig == result.signals
    IN  (IF sig.titlePhrase > 0 THEN 1 ELSE 0)
        + sig.titleTerms \div (3 * SCALE)
        + (2 * sig.titleExpanded) \div (3 * SCALE)
        + (IF sig.contentPhrase > 0 THEN 1 ELSE 0)
        + sig.contentTerms \div SCALE
        + (2 * sig.contentExpanded) \div SCALE

\* C15 (as stated): every highlight span of a returned result covers the
\* normalized query or a query term; expanded terms add no record.
C15_SpansFromQueryOnly_Original ==
    called =>
        \A k \in 1..Len(results) :
            spansCover(results[k], {normalizedQueryOf(query)} \cup seqElems(queryTermsOf(query)))

\* C15 (amended): every highlight span of a returned result covers the
\* normalized query, a query term or an expanded term, there is one record
\* for each phrase, query-term and expanded-term substring signal that fired,
\* and the keyword, TF-IDF, Jaccard and second-pass signals add none.
C15_SpansFromSubstringSignals ==
    called =>
        \A k \in 1..Len(results) :
            /\ spansCover(results[k], {normalizedQueryOf(query)}
                                        \cup seqElems(queryTermsOf(query))
                                        \cup seqElems(expandedTerms))
            /\ Len(results[k].matches) = substringSignalsFired(results[k])
            /\ \A m \in 1..Len(results[k].matches) : results[k].matches[m].positions # <<>>

\* A returned result carries a span of an expanded term and a span of a query
\* term, and its keyword, TF-IDF and Jaccard signals fired as well.
C15_Witness ==
    /\ called
    /\ \E k \in 1..Len(results) :
          /\ ~spansCover(results[k], {normalizedQueryOf(query)} \cup seqElems(queryTermsOf(query)))
          /\ results[k].signals.contentTerms + results[k].signals.titleTerms > 0
          /\ results[k].signals.keywordContains > 0
          /\ results[k].signals.tfidf > 0
          /\ results[k].signals.jaccard > 0
          /\ Len(results[k].matches) = substringSignalsFired(results[k])

levenshteinSimilarityApplied == applied.fn = "levenshteinSimilarity"

\* C16: levenshteinSimilarity(a, b) lies between 0 and 1 for all strings a
\* and b, and is 1 when a equals b, the two empty strings included.
C16_LevenshteinSimilarityBounds ==
    levenshteinSimilarityApplied =>
        /\ 0 <= applied.value /\ applied.value <= SCALE
        /\ applied.args[1] = applied.args[2] => applied.value = SCALE

\* The similarity of the two empty strings has been computed and is 1.
C16_Witness ==
    /\ levenshteinSimilarityApplied
    /\ applied.args = << <<>>, <<>> >>
    /\ applied.value = SCALE

\* The strings one insertion, one deletion or one substitution away from s.
oneEdit(s) ==
    {SubSeq(s, 1, i - 1) \o SubSeq(s, i + 1, Len(s)) : i \in 1..Len(s)}
    \cup {SubSeq(s, 1, i) \o <<c>> \o SubSeq(s, i + 1, Len(s)) :
              i \in 0..Len(s), c \in Alphabet}
    \cup {[s EXCEPT ![i] = c] : i \in 1..Len(s), c \in Alphabet}

\* The least number of single edits that lead from a string of `reached` to
\* the target, n edits having been made to reach `reached`.  No string longer
\* than the longer of source and target is needed on a shortest way.
RECURSIVE editSteps(_, _, _, _)
editSteps(reached, target, n, maxLength) ==
    IF target \in reached THEN n
    ELSE editSteps(reached \cup {t \in UNION {oneEdit(s) : s \in reached} :
                                     Len(t) <= maxLength},
                   target, n + 1, maxLength)

\* The classic edit distance: the length of a shortest sequence of single
\* insertions, deletions and substitutions that transforms a into b.
editDistance(a, b) ==
    editSteps({a}, b, 0, IF Len(a) >= Len(b) THEN Len(a) ELSE Len(b))

levenshteinDistanceApplied == applied.fn = "levenshteinDistance"

\* C17: levenshteinDistance(a, b) is the least number of single-character
\* insertions, deletions and substitutions that transforms a into b.
C17_LevenshteinIsEditDistance ==
    levenshteinDistanceApplied =>
        applied.value = editDistance(applied.args[1], applied.args[2])

\* A distance that takes a substitution and a change of length: it exceeds
\* the difference of the lengths and is less than the longer length.
C17_Witness ==
    /\ levenshteinDistanceApplied
    /\ Len(applied.args[1]) < Len(applied.args[2])
    /\ applied.value > Len(applied.args[2]) - Len(applied.args[1])
    /\ applied.value < Len(applied.args[2])
    /\ applied.value = editDistance(applied.args[1], applied.args[2])

jaccardSimilarityApplied == applied.fn = "jaccardSimilarity"

\* C18: jaccardSimilarity of two sets, two empty sets included, is a number
\* between 0 and 1, never the not-a-number result of dividing zero by zero.
C18_JaccardDefined ==
    jaccardSimilarityApplied =>
        /\ ~isNaN(applied.value)
        /\ 0 <= applied.value /\ applied.value <= SCALE

calculateSimilarityApplied == applied.fn = "calculateSimilarity"

\* C19: calculateSimilarity of two texts, texts without a token longer than
\* two characters included, is a number between 0 and 1.
C19_SimilarityInUnitInterval ==
    calculateSimilarityApplied =>
        /\ ~isNaN(applied.value)
        /\ 0 <= applied.value /\ applied.value <= SCALE

\* The second pass has ranked a result of the call.
rankingRan == called /\ results # <<>>

\* C20: the average document length given to BM25 is the mean, over all
\* entries, of the word count of title + " " + content, the count BM25 takes
\* as the length of one document.
C20_AvgDocLengthOverDocuments ==
    rankingRan =>
        LET avgDocLength == avgDocLengthOf(entries)
            sumDocuments == sumSeq([i \in 1..Len(entries) |->
                                       docLengthOf(documentOf(entries[i]))])
        IN  avgDocLength[1] * Len(entries) = sumDocuments * avgDocLength[2]

\* Entry i is among the first maxResults entries above the threshold in the
\* order of descending first-pass score, ties in the order of the collection.
inFirstPassTop(i) ==
    /\ passesThreshold(scoredEntries[i], getSettings)
    /\ Cardinality(aheadOf(i)) < getSettings.maxResults

\* The score the second pass gives, or would give, to first-pass record i.
secondPassScore(i) ==
    finalScoreOf(normalizedQueryOf(query), scoredEntries[i],
                 avgDocLengthOf(entries), allDocumentsOf(entries))

\* C23: the entries returned are exactly the first maxResults entries above
\* the threshold in first-pass order; the second pass gives each of them its
\* final score and neither adds nor drops an entry.
C23_ReturnedAreFirstPassTop ==
    scoringCompleted =>
        /\ \A i \in 1..Len(entries) : isReturned(entries[i]) <=> inFirstPassTop(i)
        /\ Len(results) = Cardinality({i \in 1..Len(entries) : inFirstPassTop(i)})
        /\ \A k \in 1..Len(results) :
              \E i \in 1..Len(entries) :
                  /\ results[k].entry = entries[i]
                  /\ results[k].matches = scoredEntries[i].matches
                  /\ results[k].score = secondPassScore(i)

\* An entry above the threshold is left out by the truncation although the
\* second pass would score it higher than an entry that is returned.
C23_Witness ==
    /\ scoringCompleted
    /\ \E i, j \in 1..Len(entries) :
          /\ isReturned(entries[i])
          /\ ~isReturned(entries[j])
          /\ passesThreshold(scoredEntries[j], getSettings)
          /\ secondPassScore(j) > secondPassScore(i)

\* The query is not blank and none of its tokens is longer than 2 characters.
onlyShortTokens(q) ==
    /\ ~isBlank(q)
    /\ \A t \in queryTokens(q) : Len(t) <= 2

\* C24: a query that is not blank and has no token longer than 2 characters
\* is answered with the empty list before any entry is scored, whatever the
\* entries are.
C24_ShortTokensReturnEmpty ==
    (called /\ onlyShortTokens(query)) =>
        /\ results = <<>>
        /\ scoredEntries = <<>> /\ expandedTerms = <<>>
        /\ outcome = "resolved" /\ thrownAt = "none"

\* Such a query has been answered with an entry in the collection whose
\* title is the normalized query.
C24_Witness ==
    /\ called /\ onlyShortTokens(query)
    /\ \E i \in 1..Len(entries) :
          /\ ~isMalformed(entries[i])
          /\ toLowerCase(entries[i].title) = normalizedQueryOf(query)
    /\ results = <<>>

\* The lowercased text of the field a match record of a result refers to.
fieldText(result, record) ==
    IF record.field = "title"
    THEN toLowerCase(result.entry.title)
    ELSE toLowerCase(result.entry.content)

\* The strings that produce spans in a call: the normalized query, the query
\* terms and the expanded terms.
spanSources ==
    {normalizedQueryOf(query)} \cup seqElems(queryTermsOf(query)) \cup seqElems(expandedTerms)

\* C26: every span [s, e) of a returned result lies inside the lowercased
\* text of its field with s < e, the text between s and e is the term or
\* phrase that was searched for, and the spans of one record ascend without
\* overlap.
C26_SpansWellFormed ==
    called =>
        \A k \in 1..Len(results) :
            \A m \in 1..Len(results[k].matches) :
                LET record    == results[k].matches[m]
                    positions == record.positions
                IN  /\ \A p \in 1..Len(positions) :
                          /\ 0 <= positions[p][1]
                          /\ positions[p][1] < positions[p][2]
                          /\ positions[p][2] <= Len(fieldText(results[k], record))
                          /\ spanText(results[k], record, positions[p]) \in spanSources
                    /\ \A p \in 1..(Len(positions) - 1) :
                          positions[p][2] <= positions[p + 1][1]

\* A returned result has a record with two spans of a term, the second one
\* beginning behind the end of the first.
C26_Witness ==
    /\ called
    /\ \E k \in 1..Len(results) :
          \E m \in 1..Len(results[k].matches) :
              LET positions == results[k].matches[m].positions
              IN  /\ Len(positions) >= 2
                  /\ positions[1][2] < positions[2][1]
                  /\ positions[2][2] <= Len(fieldText(results[k], results[k].matches[m]))

\* The call that returned was made for the query of the call before it, with
\* the result of that call still held: the collection and the settings are
\* the same for both.
repeatedCall == called /\ earlier # <<>> /\ earlier[1].query = query

scannedTerms == seqElems(queryTermsOf(query)) \cup seqElems(expandedTerms)

\* C25: a call in progress can always run to its end: every scan of it ends.
\* Every term that was scanned, query term or expanded term, is a non-empty
\* string, and every span a scan recorded ends behind its start, so that the
\* scan went on behind it.
C25_SearchTerminates ==
    /\ pc = "searching" => scansEnd(query, entries)
    /\ scoringCompleted =>
          /\ \A t \in scannedTerms : Len(t) > 0
          /\ \A i \in 1..Len(scoredEntries) :
                \A m \in 1..Len(scoredEntries[i].matches) :
                    \A p \in 1..Len(scoredEntries[i].matches[m].positions) :
                        scoredEntries[i].matches[m].positions[p][1]
                            < scoredEntries[i].matches[m].positions[p][2]

\* A call has ended that scanned for query terms and for expanded terms and
\* recorded a span of an expanded term.
C25_Witness ==
    /\ scoringCompleted
    /\ expandedTerms # <<>>
    /\ \E k \in 1..Len(results) :
          ~spansCover(results[k], {normalizedQueryOf(query)} \cup seqElems(queryTermsOf(query)))

\* The queries that have a record in the store.
recentQueries(store) == {r.query : r \in store}

\* C27: after every call of addRecentSearch the store holds at most 10
\* records and at most one for a query; a query that was in the store has its
\* record replaced by one with the new timestamp instead of a second record;
\* and every record that was dropped is at most as recent as every record
\* that was kept.
C27_RecentSearchesBounded ==
    [][/\ Cardinality(recentSearches') <= RecentLimit
       /\ \A r1, r2 \in recentSearches' : r1.query = r2.query => r1 = r2
       /\ Cardinality(recentSearches') <= Cardinality(recentSearches) + 1
       /\ \A r \in recentSearches' \ recentSearches : r.timestamp = now'
       /\ \A q \in recentQueries(recentSearches) \cap recentQueries(recentSearches') :
             \/ \E r \in recentSearches \cap recentSearches' : r.query = q
             \/ /\ [query |-> q, timestamp |-> now'] \in recentSearches'
                /\ Cardinality(recentSearches') <= Cardinality(recentSearches)
       /\ \A d \in recentSearches :
             d.query \notin recentQueries(recentSearches') =>
                 \A k \in recentSearches' : d.timestamp <= k.timestamp]_vars

\* The store is full, the oldest search has been dropped from it, and a
\* search made again holds the newest timestamp.
C27_Witness ==
    /\ Cardinality(recentSearches) = RecentLimit
    /\ 1 \notin recentQueries(recentSearches)
    /\ [query |-> 2, timestamp |-> now] \in recentSearches
    /\ \E r \in recentSearches : r.timestamp < now

\* The orders in which the modules of a set can be listed.
moduleOrders(ids) ==
    {order \in [1..Cardinality(ids) -> ids] :
        \A i, j \in 1..Cardinality(ids) : i # j => order[i] # order[j]}

\* The lists of the modules one after the other, in an order of the modules.
RECURSIVE concatModules(_, _, _)
concatModules(byModule, order, i) ==
    IF i > Len(order) THEN <<>>
    ELSE byModule[order[i]] \o concatModules(byModule, order, i + 1)

\* The entries of a list that belong to other modules than the given one.
ofOtherModules(list, moduleId) ==
    filterIdx(list, {i \in 1..Len(list) : list[i].moduleId # moduleId}, 1)

\* C28: after every call of registerModule the list of all entries of the
\* registry is the concatenation of the lists of the modules, and every entry
\* of a module's list carries the id of the module; a call with a definition
\* without id or name changes nothing; a call with any other definition makes
\* the definition's entries the list of its module, and leaves the lists of
\* the other modules and their entries in the list of all entries as they were.
C28_RegistryIsConcatenation ==
    [][/\ \E order \in moduleOrders(DOMAIN registry'.entriesByModule) :
              registry'.allEntries = concatModules(registry'.entriesByModule, order, 1)
       /\ \A m \in DOMAIN registry'.entriesByModule :
              \A i \in 1..Len(registry'.entriesByModule[m]) :
                  registry'.entriesByModule[m][i].moduleId = m
       /\ \A moduleDefinition \in ModuleDefinitions, nano \in NanoIds :
              RegisterModule(moduleDefinition, nano) =>
                  IF moduleDefinition.id = "" \/ moduleDefinition.name = ""
                  THEN registry' = registry
                  ELSE /\ DOMAIN registry'.entriesByModule =
                              DOMAIN registry.entriesByModule \cup {moduleDefinition.id}
                       /\ \A m \in DOMAIN registry.entriesByModule \ {moduleDefinition.id} :
                              registry'.entriesByModule[m] = registry.entriesByModule[m]
                       /\ Len(registry'.entriesByModule[moduleDefinition.id]) =
                              Len(moduleDefinition.entries)
                       /\ \A i \in 1..Len(moduleDefinition.entries) :
                              /\ registry'.entriesByModule[moduleDefinition.id][i].title =
                                     moduleDefinition.entries[i].title
                              /\ registry'.entriesByModule[moduleDefinition.id][i].id # ""
                       /\ ofOtherModules(registry'.allEntries, moduleDefinition.id) =
                              ofOtherModules(registry.allEntries, moduleDefinition.id)]_vars

\* Module m1 has been registered twice, and holds the entry of its second
\* definition alone, after the entry of module m2, which the definition gave
\* no moduleId.
C28_Witness ==
    /\ DOMAIN registry.entriesByModule = {"m1", "m2"}
    /\ registry.modules = << [id |-> "m1", name |-> "One"], [id |-> "m2", name |-> "Two"] >>
    /\ registry.allEntries = << entryOf("a", "m2", "t4"), entryOf("b", "m1", "t3") >>

\* The ids of the entries of a list.
idsOf(list) == {list[i].id : i \in 1..Len(list)}

\* The registry entries whose id no database entry and no registry entry
\* before them has.
notYetListed(dbList, registryEntries) ==
    filterIdx(registryEntries,
              {i \in 1..Len(registryEntries) :
                  /\ registryEntries[i].id \notin idsOf(dbList)
                  /\ \A j \in 1..(i - 1) : registryEntries[j].id # registryEntries[i].id},
              1)

\* C29: the list getAllEntries returns holds no two entries with the same id:
\* it is every database entry, followed by each registry entry whose id does
\* not occur before it, so that of a database entry and a registry entry with
\* the same id the database entry is the one listed; when reading fails the
\* call returns the empty list and does not throw.
C29_AllEntriesDeduplicated ==
    listing.outcome # "none" =>
        /\ listing.outcome = "resolved"
        /\ IF listing.failed THEN listing.value = <<>>
           ELSE /\ \A i, j \in 1..Len(listing.value) :
                       listing.value[i].id = listing.value[j].id => i = j
                /\ listing.value =
                       listing.read[1] \o notYetListed(listing.read[1], listing.read[2])

\* The database holds an entry with the id of a registry entry; the call has
\* listed the database entry, and after it a registry entry with another id.
C29_Witness ==
    /\ listing.outcome = "resolved"
    /\ ~listing.failed
    /\ \E i \in 1..Len(listing.read[1]), j \in 1..Len(listing.read[2]) :
           /\ listing.read[1][i].id = listing.read[2][j].id
           /\ listing.read[1][i] # listing.read[2][j]
           /\ listing.value[i] = listing.read[1][i]
    /\ Len(listing.value) > Len(listing.read[1])
    /\ Len(listing.value) < Len(listing.read[1]) + Len(listing.read[2])

\* ---------------------------------------------------------------------------
\* src/lib/database.ts: initializeDatabase, invoked by several operations
\* ---------------------------------------------------------------------------

\* defaultKnowledgeBase.modules and defaultKnowledgeBase.entries: the ids of
\* the default modules and the default entries. The ids are generated once,
\* when the module is loaded, so every invocation adds the same records.
DefaultModules == {"general"}

DefaultEntries == { entryOf("d", "general", "t0") }

\* Line 58: an operation invokes initializeDatabase; the invocation returns at
\* once when the flag is set, and otherwise awaits openDB.
CallInitialize(i) ==
    /\ initCalls[i].at = "none"
    /\ initCalls' = [initCalls EXCEPT ![i].at =
                        IF isInitialized THEN "resolved" ELSE "opening"]
    /\ UNCHANGED <<searchVars, recentVars, registryVars,
                   isInitialized, modulesStore, populated>>

\* Lines 60-143: openDB has resolved (the stores exist after the first
\* upgrade), and the invocation awaits db.count("modules").
Opened(i) ==
    /\ initCalls[i].at = "opening"
    /\ initCalls' = [initCalls EXCEPT ![i].at = "counting"]
    /\ UNCHANGED <<searchVars, recentVars, registryVars,
                   isInitialized, modulesStore, populated>>

\* Lines 143-151: the count has resolved. With no module in the store the
\* invocation awaits populateDefaultData; otherwise it sets the flag and
\* resolves.
Counted(i) ==
    /\ initCalls[i].at = "counting"
    /\ initCalls' = [initCalls EXCEPT
                        ![i].moduleCount = Cardinality(modulesStore),
                        ![i].at = IF Cardinality(modulesStore) = 0
                                  THEN "populating" ELSE "resolved"]
    /\ isInitialized' = IF Cardinality(modulesStore) = 0 THEN isInitialized ELSE TRUE
    /\ UNCHANGED <<searchVars, recentVars, registryVars, modulesStore, populated>>

\* Lines 161-218, populateDefaultData: one readwrite transaction over the
\* stores, which the database runs after every transaction on these stores
\* that was made before it. add() of a record whose key the store holds fails
\* with a ConstraintError and the transaction is aborted; the catch at 214
\* throws, and the catch at 152 throws "Database initialization failed".
\* (The categories store is left out.)
Populate(i) ==
    /\ initCalls[i].at = "populating"
    /\ IF modulesStore \cap DefaultModules # {}
       THEN /\ initCalls' = [initCalls EXCEPT ![i].at = "rejected"]
            /\ UNCHANGED <<modulesStore, dbEntries, populated>>
       ELSE /\ initCalls' = [initCalls EXCEPT ![i].at = "populated"]
            /\ modulesStore' = modulesStore \cup DefaultModules
            /\ dbEntries' = dbEntries \cup DefaultEntries
            /\ populated' = populated + 1
    /\ UNCHANGED <<searchVars, recentVars, registry, listing, isInitialized>>

\* Lines 150-151: populateDefaultData has resolved; the invocation sets the
\* flag and resolves.
SetInitialized(i) ==
    /\ initCalls[i].at = "populated"
    /\ isInitialized' = TRUE
    /\ initCalls' = [initCalls EXCEPT ![i].at = "resolved"]
    /\ UNCHANGED <<searchVars, recentVars, registryVars, modulesStore, populated>>

NextInitialize ==
    \/ \E i \in Invocations : CallInitialize(i)
    \/ \E i \in Invocations : Opened(i)
    \/ \E i \in Invocations : Counted(i)
    \/ \E i \in Invocations : Populate(i)
    \/ \E i \in Invocations : SetInitialized(i)

SpecInitialize == Init /\ [][NextInitialize]_vars

\* C30: when several operations invoke initializeDatabase on an empty store
\* before the flag is set, the default modules and entries are populated
\* exactly once, and no invocation ends with an error.
C30_PopulatedOnceWithoutError ==
    /\ populated <= 1
    /\ \A i \in Invocations :
           /\ initCalls[i].at # "rejected"
           /\ initCalls[i].at = "resolved" =>
                  /\ populated = 1
                  /\ modulesStore = DefaultModules
                  /\ dbEntries = DefaultEntries

====
